---- MODULE Spec2Model ----
(***************************************************************************)
(* cncpathpreview.py: reads a G-code file line by line, collects the       *)
(* points of every move, and writes a preview program that visits the      *)
(* extreme points of the path at a safety height.                          *)
(*                                                                         *)
(* Text is a sequence of one-character strings.  Numbers are integers;     *)
(* Python lists are tuples indexed from 1, so column c of the source is    *)
(* column c+1 here.  An optional value (None or a float) is <<>> or <<v>>. *)
(***************************************************************************)
EXTENDS Integers, Sequences, FiniteSets, TLC

VARIABLES
    lines,                 \* the lines of the input file (f.readlines())
    idx,                   \* number of lines the for loop has consumed
    line,                  \* the loop variable, after line.strip()
    branch,                \* the handler the loop took for `line`
    data,                  \* the collected coordinate sets
    previous_coordinates,  \* last known position
    shift,                 \* coordinate system shift XYZ
    collected,             \* data as returned by create_dataset_from_input
    zsafety_arg,           \* the -z option, in tenths of a unit
    zsafety,               \* the validated safety height
    diag,                  \* TRUE once the safety-height error was echoed
    target,                \* number of targets already written
    out,                   \* the lines written to the output file
    pc                     \* position in path_preview

vars == <<lines, idx, line, branch, data, previous_coordinates, shift,
          collected, zsafety_arg, zsafety, diag, target, out, pc>>

-----------------------------------------------------------------------------
(* Bounds of the model *)

MaxLines == 3

-----------------------------------------------------------------------------
(* Python built-ins used by the source *)

None == <<>>

Some(v) == <<v>>

SetMin(S) == CHOOSE m \in S : \A n \in S : m <= n

Abs(n) == IF n < 0 THEN -n ELSE n

\* str.find: index (from 0) of the first occurrence of pat in s, or -1
Find(s, pat) ==
    LET hits == {k \in 0..(Len(s) - Len(pat)) :
                    SubSeq(s, k + 1, k + Len(pat)) = pat}
    IN  IF hits = {} THEN -1 ELSE SetMin(hits)

\* str.strip(chars): drop leading and trailing characters that are in chars
RECURSIVE StripLeft(_, _)
StripLeft(s, chars) ==
    IF s # <<>> /\ Head(s) \in chars THEN StripLeft(Tail(s), chars) ELSE s

RECURSIVE StripRight(_, _)
StripRight(s, chars) ==
    IF s # <<>> /\ s[Len(s)] \in chars
    THEN StripRight(SubSeq(s, 1, Len(s) - 1), chars)
    ELSE s

Strip(s, chars) == StripRight(StripLeft(s, chars), chars)

Whitespace == {" ", "\n"}

\* str.split(' '): cut at every single space
RECURSIVE Split(_)
Split(s) ==
    LET k == Find(s, <<" ">>)
    IN  IF k = -1 THEN <<s>>
        ELSE <<SubSeq(s, 1, k)>> \o Split(SubSeq(s, k + 2, Len(s)))

DigitValue(c) ==
    CASE c = "0" -> 0 [] c = "1" -> 1 [] c = "2" -> 2 [] c = "3" -> 3
      [] c = "4" -> 4 [] c = "5" -> 5 [] c = "6" -> 6 [] c = "7" -> 7
      [] c = "8" -> 8 [] c = "9" -> 9

RECURSIVE Digits(_)
Digits(s) ==
    IF s = <<>> THEN 0
    ELSE 10 * Digits(SubSeq(s, 1, Len(s) - 1)) + DigitValue(s[Len(s)])

\* float(text) for a signed whole number
Float(s) == IF Head(s) = "-" THEN -Digits(Tail(s)) ELSE Digits(s)

\* math.sqrt, for the perfect squares the model uses
Sqrt(n) == CHOOSE r \in 0..n : r * r = n

\* round(p / q, 0) for q > 0: nearest whole number, halves to the even one
RoundDiv(p, q) ==
    LET f == p \div q
        r == p % q
    IN  IF 2 * r < q THEN f
        ELSE IF 2 * r > q THEN f + 1
        ELSE IF f % 2 = 0 THEN f ELSE f + 1

\* degrees(acos(c / 1000)) in hundredths of a degree
AcosCentiDeg(c) ==
    CASE c = 1000  -> 0
      [] c = 800   -> 3687
      [] c = 600   -> 5313
      [] c = 0     -> 9000
      [] c = -600  -> 12687
      [] c = -800  -> 14313
      [] c = -1000 -> 18000

-----------------------------------------------------------------------------
(* Line classification *)

G00 == <<"G", "0", "0">>
G0s == <<"G", "0", " ">>
G01 == <<"G", "0", "1">>
G1s == <<"G", "1", " ">>
G02 == <<"G", "0", "2">>
G2s == <<"G", "2", " ">>
G03 == <<"G", "0", "3">>
G3s == <<"G", "3", " ">>
G92 == <<"G", "9", "2">>

\* The value of the or-chain is the first truthy operand; a bare find()
\* result is truthy unless it is 0.
is_move(command) ==
    IF command # <<>>
    THEN \/ Find(command, G00) > -1
         \/ Find(command, G0s) # 0
         \/ Find(command, G01) > -1
         \/ Find(command, G1s) # 0
    ELSE FALSE

is_arc(command) ==
    IF command # <<>>
    THEN \/ Find(command, G02) > -1
         \/ Find(command, G03) > -1
         \/ Find(command, G2s) > -1
         \/ Find(command, G3s) > -1
    ELSE FALSE

is_coordinate_shift(command) ==
    IF command # <<>> THEN Find(command, G92) > -1 ELSE FALSE

-----------------------------------------------------------------------------
(* Coordinates *)

AxisLetters == <<"X", "Y", "Z", "I", "J">>

\* coordinate[k] is the value of the last word that contains letter k
parse_coordinates(l) ==
    LET values == Split(l)
        Word(k) == {n \in 1..Len(values) : Find(values[n], <<AxisLetters[k]>>) > -1}
        Last(S) == CHOOSE n \in S : \A m \in S : m <= n
    IN  [k \in 1..5 |->
            IF Word(k) = {} THEN None
            ELSE Some(Float(Strip(values[Last(Word(k))], {AxisLetters[k], " "})))]

\* fill_coordinates without `coordinates[i] += shift[i]`
fill_coordinates_unshifted(coordinates, previous, sh) ==
    [k \in 1..5 |->
        IF k <= 3 /\ coordinates[k] = None THEN Some(previous[k]) ELSE coordinates[k]]

fill_coordinates(coordinates, previous, sh) ==
    [k \in 1..5 |->
        IF k <= 3
        THEN IF coordinates[k] = None
             THEN Some(previous[k])
             ELSE Some(coordinates[k][1] + sh[k])
        ELSE coordinates[k]]

handle_coordinate_shift(l, sh) ==
    LET coordinate_system_shift == parse_coordinates(l)
    IN  [k \in 1..3 |->
            IF coordinate_system_shift[k] # None /\ coordinate_system_shift[k][1] # 0
            THEN sh[k] - coordinate_system_shift[k][1]
            ELSE sh[k]]

handle_linear_move(l, previous, sh) ==
    LET coordinates == fill_coordinates(parse_coordinates(l), previous, sh)
    IN  <<coordinates[1][1], coordinates[2][1], coordinates[3][1]>>

-----------------------------------------------------------------------------
(* Arc resolution *)

\* Angle, in whole degrees, of the point `coordinates` as seen from arc_center
get_arc_degrees(coordinates, arc_center, radius) ==
    IF radius <= 0 THEN 0
    ELSE LET cos == RoundDiv(1000 * (coordinates[1] - arc_center[1]), radius)
             rad == AcosCentiDeg(cos)
             refl == IF coordinates[2] - arc_center[2] < 0 THEN 36000 - rad ELSE rad
         IN  RoundDiv(refl, 100)

RECURSIVE Crossings(_, _, _, _)
\* the loop over crossing_angle = 90 * k, k = 1..4
Crossings(k, arc_start, arc_end, extremevalue_order) ==
    IF k > 4 THEN <<>>
    ELSE (IF 90 * k \in arc_start..(arc_end - 1)
          THEN <<extremevalue_order[k]>> ELSE <<>>)
         \o Crossings(k + 1, arc_start, arc_end, extremevalue_order)

handle_arc_move_ij(l, previous, sh) ==
    LET coordinates == fill_coordinates(parse_coordinates(l), previous, sh)
        xyz == <<coordinates[1][1], coordinates[2][1], coordinates[3][1]>>
        radius == Sqrt(coordinates[4][1] * coordinates[4][1]
                       + coordinates[5][1] * coordinates[5][1])
        x_center == previous[1] + coordinates[4][1]
        y_center == previous[2] + coordinates[5][1]
        arc_center == <<x_center, y_center>>
        cw == Find(l, G02) > -1 \/ Find(l, G2s) > -1
        ccw == Find(l, G03) > -1 \/ Find(l, G3s) > -1
        arc_start == IF cw THEN get_arc_degrees(xyz, arc_center, radius)
                     ELSE get_arc_degrees(previous, arc_center, radius)
        arc_end0 == IF cw THEN get_arc_degrees(previous, arc_center, radius)
                    ELSE get_arc_degrees(xyz, arc_center, radius)
        x_plus_radius == <<x_center + radius, y_center, xyz[3]>>
        y_plus_radius == <<x_center, y_center + radius, xyz[3]>>
        x_minus_radius == <<x_center - radius, y_center, xyz[3]>>
        y_minus_radius == <<x_center, y_center - radius, xyz[3]>>
        extremevalue_order == <<y_plus_radius, x_minus_radius, y_minus_radius, x_plus_radius>>
        arc_end == IF arc_end0 - arc_start < 0 THEN arc_end0 + 360 ELSE arc_end0
    IN  IF ~cw /\ ~ccw THEN <<>>
        ELSE Crossings(1, arc_start, arc_end, extremevalue_order) \o <<xyz>>

-----------------------------------------------------------------------------
(* Extreme values *)

RECURSIVE MaxScan(_, _, _, _)
\* max(data, key): the first element with the greatest key wins
MaxScan(d, column, k, best) ==
    IF k > Len(d) THEN best
    ELSE MaxScan(d, column, k + 1, IF d[k][column] > d[best][column] THEN k ELSE best)

RECURSIVE MinScan(_, _, _, _)
\* min(data, key): the first element with the least key wins
MinScan(d, column, k, best) ==
    IF k > Len(d) THEN best
    ELSE MinScan(d, column, k + 1, IF d[k][column] < d[best][column] THEN k ELSE best)

RECURSIVE MinScanLast(_, _, _, _)
MinScanLast(d, column, k, best) ==
    IF k > Len(d) THEN best
    ELSE MinScanLast(d, column, k + 1, IF d[k][column] <= d[best][column] THEN k ELSE best)

\* get_min_by_column with the last of several least elements winning
get_min_by_column_last(d, column) == MinScanLast(d, column, 2, 1)

\* The element returned is a reference into data: its position stands for it.
get_max_by_column(d, column) == MaxScan(d, column, 2, 1)

get_min_by_column(d, column) == MinScan(d, column, 2, 1)

targets == <<"Ymin", "Xmin", "Ymax", "Xmax">>

\* the element `result` refers to, for the four targets
extreme_reference(axis, d) ==
    CASE axis = "Ymin" -> get_min_by_column(d, 2)
      [] axis = "Xmin" -> get_min_by_column(d, 1)
      [] axis = "Ymax" -> get_max_by_column(d, 2)
      [] axis = "Xmax" -> get_max_by_column(d, 1)

\* get_extreme_value without `result[2] = zsafety`
get_extreme_value_native_z(axis, d, z) ==
    [stringresult |-> d[extreme_reference(axis, d)], data |-> d]

\* get_extreme_value for a target: the coordinates it returns, and data after
\* `result[2] = zsafety` wrote through the reference
get_extreme_value(axis, d, z) ==
    LET r == extreme_reference(axis, d)
        result == [d[r] EXCEPT ![3] = z]
    IN  [stringresult |-> result, data |-> [d EXCEPT ![r] = result]]

\* get_extreme_value for "Zmin": the number in the message
get_zmin(d) == d[get_min_by_column(d, 3)][3]

-----------------------------------------------------------------------------
(* Output lines *)

OutLine(op, axis, args) == [op |-> op, axis |-> axis, args |-> args]

get_file_header == <<OutLine("HEADER", "", <<>>), OutLine("G90", "", <<>>)>>

get_rapidmove(coordinate) == OutLine("G00", "", coordinate)

get_coordinate_strings(axis, coordinate) ==
    <<OutLine("MSG", axis, coordinate), OutLine("M00", "", <<>>), get_rapidmove(coordinate)>>

DefaultZ == 25

\* convert_input_zsafety with `zsafety < 0` as the test
convert_input_zsafety_negative_only(z) ==
    LET rounded == RoundDiv(z, 10)
    IN  IF rounded < 0
        THEN [zsafety |-> 25, error |-> TRUE]
        ELSE [zsafety |-> rounded, error |-> FALSE]

\* zsafety arrives in tenths of a unit; the result is in whole units
convert_input_zsafety(z) ==
    LET rounded == RoundDiv(z, 10)
    IN  IF rounded <= 0
        THEN [zsafety |-> DefaultZ, error |-> TRUE]
        ELSE [zsafety |-> rounded, error |-> FALSE]

-----------------------------------------------------------------------------
(* Input files *)

DigitChar == <<"0", "1", "2", "3", "4", "5", "6", "7", "8", "9">>

\* the text of a whole number of at most two digits
NumText(n) ==
    (IF n < 0 THEN <<"-">> ELSE <<>>)
    \o (IF Abs(n) >= 10 THEN <<DigitChar[(Abs(n) \div 10) + 1]>> ELSE <<>>)
    \o <<DigitChar[(Abs(n) % 10) + 1]>>

W(letter, n) == <<letter>> \o NumText(n)

RECURSIVE Join(_)
Join(words) ==
    IF words = <<>> THEN <<>>
    ELSE IF Len(words) = 1 THEN words[1]
    ELSE words[1] \o <<" ">> \o Join(Tail(words))

\* one line of the file, as readlines() returns it
FileLine(words) == Join(words) \o <<"\n">>

InputLines ==
    { FileLine(<<G01, W("X", 10)>>),
      FileLine(<<G01, W("X", 10), W("Y", 20), W("Z", 5)>>),
      FileLine(<<<<"G", "0">>, W("X", -5), W("Y", 5)>>),
      FileLine(<<G00, W("Y", -5), W("Z", -2)>>),
      FileLine(<<<<"G", "1">>, W("X", 0), W("Z", 5)>>),
      FileLine(<<G92, W("X", 5)>>),
      FileLine(<<G02, W("X", 10), W("Y", 0), W("I", -10), W("J", 0)>>),
      FileLine(<<<<"M", "0", "3">>>>),
      FileLine(<<W("X", 5), W("Y", 5)>>),
      FileLine(<<>>) }

InputFiles == UNION {[1..n -> InputLines] : n \in 0..MaxLines}

\* values of the -z option, in tenths
ZsafetyArgs == {-50, 0, 4, 5, 6, 15, 25, 250}

-----------------------------------------------------------------------------
(* path_preview *)

Init ==
    /\ lines \in InputFiles
    /\ zsafety_arg \in ZsafetyArgs
    /\ idx = 0
    /\ line = <<>>
    /\ branch = "none"
    /\ data = <<>>
    /\ previous_coordinates = <<0, 0, 0>>
    /\ shift = <<0, 0, 0>>
    /\ collected = <<>>
    /\ zsafety = 0
    /\ diag = FALSE
    /\ target = 0
    /\ out = <<>>
    /\ pc = "read"

\* One iteration of the for loop of create_dataset_from_input
ProcessLine ==
    /\ pc = "read"
    /\ idx < Len(lines)
    /\ LET l == Strip(lines[idx + 1], Whitespace)
           newdata ==
               IF is_move(l)
               THEN Append(data, handle_linear_move(l, previous_coordinates, shift))
               ELSE IF is_arc(l)
               THEN data \o handle_arc_move_ij(l, previous_coordinates, shift)
               ELSE data
       IN  /\ line' = l
           /\ branch' = IF is_move(l) THEN "move"
                        ELSE IF is_arc(l) THEN "arc"
                        ELSE IF is_coordinate_shift(l) THEN "shift"
                        ELSE "none"
           /\ data' = newdata
           /\ shift' = IF ~is_move(l) /\ ~is_arc(l) /\ is_coordinate_shift(l)
                       THEN handle_coordinate_shift(l, shift)
                       ELSE shift
           /\ previous_coordinates' =
                  IF newdata # <<>> THEN newdata[Len(newdata)]
                  ELSE previous_coordinates
    /\ idx' = idx + 1
    /\ UNCHANGED <<lines, collected, zsafety_arg, zsafety, diag, target, out, pc>>

\* The loop is exhausted: create_dataset_from_input returns data
ReturnDataset ==
    /\ pc = "read"
    /\ idx = Len(lines)
    /\ collected' = data
    /\ pc' = "convert"
    /\ UNCHANGED <<lines, idx, line, branch, data, previous_coordinates, shift,
                   zsafety_arg, zsafety, diag, target, out>>

ConvertZsafety ==
    /\ pc = "convert"
    /\ LET r == convert_input_zsafety(zsafety_arg)
       IN  /\ zsafety' = r.zsafety
           /\ diag' = r.error
    /\ pc' = "header"
    /\ UNCHANGED <<lines, idx, line, branch, data, previous_coordinates, shift,
                   collected, zsafety_arg, target, out>>

\* generate_output_file up to the loop over the targets; min() of an empty
\* list raises ValueError after the header was written
WriteHeader ==
    /\ pc = "header"
    /\ IF data = <<>>
       THEN /\ out' = get_file_header
            /\ pc' = "crashed"
       ELSE /\ out' = get_file_header
                      \o <<OutLine("MSG", "Zmin", <<get_zmin(data)>>),
                           get_rapidmove(<<0, 0, zsafety>>)>>
            /\ pc' = "targets"
    /\ UNCHANGED <<lines, idx, line, branch, data, previous_coordinates, shift,
                   collected, zsafety_arg, zsafety, diag, target>>

\* One iteration of the loop over the targets
WriteTarget ==
    /\ pc = "targets"
    /\ target < Len(targets)
    /\ LET text == targets[target + 1]
           value == get_extreme_value(text, data, zsafety)
       IN  /\ data' = value.data
           /\ out' = out \o get_coordinate_strings(text, value.stringresult)
    /\ target' = target + 1
    /\ UNCHANGED <<lines, idx, line, branch, previous_coordinates, shift,
                   collected, zsafety_arg, zsafety, diag, pc>>

WriteEnd ==
    /\ pc = "targets"
    /\ target = Len(targets)
    /\ out' = Append(out, OutLine("M30", "", <<>>))
    /\ pc' = "done"
    /\ UNCHANGED <<lines, idx, line, branch, data, previous_coordinates, shift,
                   collected, zsafety_arg, zsafety, diag, target>>

Next ==
    \/ ProcessLine
    \/ ReturnDataset
    \/ ConvertZsafety
    \/ WriteHeader
    \/ WriteTarget
    \/ WriteEnd

Spec == Init /\ [][Next]_vars

-----------------------------------------------------------------------------
(* The arc resolver on its own: handle_arc_move_ij applied to one arc line *)

Radii == {5, 10}

\* the lattice points of the circle of radius r around the origin
CirclePoints(r) ==
    {v \in (-r..r) \X (-r..r) : v[1] * v[1] + v[2] * v[2] = r * r}

ArcCommands == {G02, G03, <<"G", "2">>, <<"G", "3">>}

ArcCenters == {<<0, 0>>, <<2, -3>>}

ArcShifts == {<<0, 0, 0>>, <<1, -2, 3>>}

\* the end points of the arcs without a radius, relative to the start
DegenerateEnds == {<<0, 0>>, <<3, 4>>, <<-5, 0>>}

\* an arc from center + p to center + q; without a radius p is <<0, 0>>
ArcInputs ==
    UNION {[cmd : ArcCommands, c : ArcCenters, sh : ArcShifts, z : {None, Some(-4)},
            p : CirclePoints(r), q : IF r = 0 THEN DegenerateEnds ELSE CirclePoints(r)]
           : r \in Radii \cup {0}}

ArcStart(t) == <<t.c[1] + t.p[1], t.c[2] + t.p[2], 0>>

ArcLine(t) ==
    Join(<<t.cmd,
           W("X", t.c[1] + t.q[1] - t.sh[1]),
           W("Y", t.c[2] + t.q[2] - t.sh[2])>>
         \o (IF t.z = None THEN <<>> ELSE <<W("Z", t.z[1])>>)
         \o <<W("I", -t.p[1]), W("J", -t.p[2])>>)

InitArc ==
    /\ \E t \in ArcInputs :
          /\ line = ArcLine(t)
          /\ previous_coordinates = ArcStart(t)
          /\ shift = t.sh
    /\ lines = <<>>
    /\ zsafety_arg = 0
    /\ idx = 0
    /\ branch = "none"
    /\ data = <<>>
    /\ collected = <<>>
    /\ zsafety = 0
    /\ diag = FALSE
    /\ target = 0
    /\ out = <<>>
    /\ pc = "arc"

ResolveArc ==
    /\ pc = "arc"
    /\ data' = handle_arc_move_ij(line, previous_coordinates, shift)
    /\ pc' = "resolved"
    /\ UNCHANGED <<lines, idx, line, branch, previous_coordinates, shift,
                   collected, zsafety_arg, zsafety, diag, target, out>>

NextArc == ResolveArc

SpecArc == InitArc /\ [][NextArc]_vars

-----------------------------------------------------------------------------
(* Vocabulary of the properties *)

Range(f) == {f[k] : k \in DOMAIN f}

LinearTokens == {<<"G", "0">>, G00, <<"G", "1">>, G01}

ArcTokens == {<<"G", "2">>, G02, <<"G", "3">>, G03}

ShiftTokens == {G92}

\* l carries one of the tokens as a whitespace-delimited word
HasToken(l, tokens) == Range(Split(l)) \cap tokens # {}

\* the loop has just handled line'
LineStep == pc = "read" /\ idx' = idx + 1

\* the point a line resolves to, axis by axis
Resolved(l, previous, sh) ==
    [k \in 1..3 |->
        IF parse_coordinates(l)[k] = None THEN previous[k]
        ELSE parse_coordinates(l)[k][1] + sh[k]]

-----------------------------------------------------------------------------
(* C1: in the loop of create_dataset_from_input a line is handled as a linear
   move only if it carries G0/G00/G1/G01, as an arc only if it carries
   G2/G02/G3/G03, as a coordinate shift only if it carries G92, and a line
   with none of these tokens appends no point and leaves the tracked position
   and the shift unchanged. *)
C1_HandledByToken ==
    [][LineStep =>
          /\ branch' = "move" => HasToken(line', LinearTokens)
          /\ branch' = "arc" => HasToken(line', ArcTokens)
          /\ branch' = "shift" => HasToken(line', ShiftTokens)
          /\ ~HasToken(line', LinearTokens \cup ArcTokens \cup ShiftTokens)
                => UNCHANGED <<data, previous_coordinates, shift>>]_vars

(* C2: a G92 line handled by the loop emits no point and sets
   shift[axis] = shift[axis] - value for each axis present, leaving the other
   axes unchanged; a later linear move resolves a stated axis to
   value + shift[axis]; and the file [G92 X5, G01 X10] ends with shift.x = -5
   and exactly one point, whose x is 5. *)
ExampleB == <<FileLine(<<G92, W("X", 5)>>), FileLine(<<G01, W("X", 10)>>)>>

C2_ShiftStep ==
    LineStep =>
       /\ HasToken(line', ShiftTokens) =>
             /\ data' = data
             /\ \A k \in 1..3 :
                   shift'[k] = IF parse_coordinates(line')[k] = None THEN shift[k]
                               ELSE shift[k] - parse_coordinates(line')[k][1]
       /\ HasToken(line', LinearTokens) =>
             /\ Len(data') = Len(data) + 1
             /\ \A k \in 1..3 :
                   parse_coordinates(line')[k] # None =>
                      data'[Len(data')][k] = parse_coordinates(line')[k][1] + shift[k]

C2_ExampleB ==
    (lines = ExampleB /\ pc = "convert") =>
        /\ shift[1] = -5
        /\ Len(data) = 1
        /\ data[1][1] = 5

(* C2: every loop step treats a G92 line and a later linear move as stated
   above, and the file [G92 X5, G01 X10] ends with shift.x = -5 and the single
   point x = 5. *)
C2_CoordinateShift == [][C2_ShiftStep]_vars /\ []C2_ExampleB

-----------------------------------------------------------------------------
(* The arc of the current state, read off the line and the start point *)

ArcI == parse_coordinates(line)[4][1]

ArcJ == parse_coordinates(line)[5][1]

ArcRadius == Sqrt(ArcI * ArcI + ArcJ * ArcJ)

ArcCenter == <<previous_coordinates[1] + ArcI, previous_coordinates[2] + ArcJ>>

ArcEnd == Resolved(line, previous_coordinates, shift)

ArcIsCW == HasToken(line, {G02, <<"G", "2">>})

\* the cardinal point at 90 * k degrees, k = 1..4 (4 is 0 = 360 degrees)
Cardinal(k) ==
    CASE k = 1 -> <<ArcCenter[1], ArcCenter[2] + ArcRadius, ArcEnd[3]>>
      [] k = 2 -> <<ArcCenter[1] - ArcRadius, ArcCenter[2], ArcEnd[3]>>
      [] k = 3 -> <<ArcCenter[1], ArcCenter[2] - ArcRadius, ArcEnd[3]>>
      [] k = 4 -> <<ArcCenter[1] + ArcRadius, ArcCenter[2], ArcEnd[3]>>

AngleOfStart == get_arc_degrees(previous_coordinates, ArcCenter, ArcRadius) % 360

AngleOfEnd == get_arc_degrees(ArcEnd, ArcCenter, ArcRadius) % 360

\* degrees travelled from the start point to the angle a, in the direction cw
Travel(a, cw) == IF cw THEN (AngleOfStart - a) % 360 ELSE (a - AngleOfStart) % 360

\* degrees swept from start to end by an arc of direction cw; an arc that
\* ends where it starts is a full circle
Sweep(cw) == IF Travel(AngleOfEnd, cw) = 0 THEN 360 ELSE Travel(AngleOfEnd, cw)

StrictlyInside(k, cw) == 0 < Travel(90 * k, cw) /\ Travel(90 * k, cw) < Sweep(cw)

StrictlyOutside(k, cw) == Travel(90 * k, cw) > Sweep(cw)

\* the same arc line with the opposite direction word
Opposite(l) ==
    LET word == Split(l)[1]
        other == CASE word = G02 -> G03
                   [] word = G03 -> G02
                   [] word = <<"G", "2">> -> <<"G", "3">>
                   [] word = <<"G", "3">> -> <<"G", "2">>
    IN  other \o SubSeq(l, Len(word) + 1, Len(l))

(* C3: for a full-circle arc (end point equal to the start point, radius > 0,
   either direction) handle_arc_move_ij returns the four cardinal points, at
   90, 180, 270 and 360 degrees, followed by the end point: 5 points. *)
C3_FullCircle ==
    (/\ pc = "resolved"
     /\ ArcRadius > 0
     /\ ArcEnd[1] = previous_coordinates[1]
     /\ ArcEnd[2] = previous_coordinates[2])
    => data = <<Cardinal(1), Cardinal(2), Cardinal(3), Cardinal(4), ArcEnd>>

(* C4: for every arc with radius > 0 whose start and end angles differ, the
   points returned by handle_arc_move_ij contain every cardinal point strictly
   inside the portion swept from start to end in the arc's direction, also one
   reached beyond 360 degrees, and no cardinal point strictly outside it. *)
C4_CardinalsOfSweep ==
    (pc = "resolved" /\ ArcRadius > 0 /\ AngleOfStart # AngleOfEnd)
    => \A k \in 1..4 :
          /\ StrictlyInside(k, ArcIsCW) => Cardinal(k) \in Range(data)
          /\ StrictlyOutside(k, ArcIsCW) => Cardinal(k) \notin Range(data)

(* C5: for two distinct points P and Q of a circle with radius > 0, when the
   CW and the CCW sweep from P to Q are both >= 90 degrees, every cardinal
   point that coincides with neither P nor Q is returned for the CW arc or
   for the CCW arc. *)
C5_Complementarity ==
    (/\ pc = "resolved"
     /\ ArcRadius > 0
     /\ AngleOfStart # AngleOfEnd
     /\ Sweep(TRUE) >= 90
     /\ Sweep(FALSE) >= 90)
    => \A k \in 1..4 :
          (90 * k) % 360 \notin {AngleOfStart, AngleOfEnd}
          => Cardinal(k) \in
                Range(data)
                \cup Range(handle_arc_move_ij(Opposite(line), previous_coordinates, shift))

(* C6, as stated: whenever the radius of an arc line is <= 0,
   handle_arc_move_ij returns an empty sequence. *)
C6_DegenerateEmpty ==
    (pc = "resolved" /\ ArcRadius <= 0) => data = <<>>

(* C6, amended: whenever the radius of an arc line is <= 0,
   handle_arc_move_ij returns exactly one point, the resolved end point of the
   line (each stated axis plus its shift, each other axis held), and no
   cardinal point. *)
C6_DegenerateEndpointOnly ==
    (pc = "resolved" /\ ArcRadius <= 0) => data = <<ArcEnd>>

C6_Witness ==
    /\ pc = "resolved"
    /\ ArcRadius = 0
    /\ shift # <<0, 0, 0>>
    /\ data # <<>>
    /\ data[1] # previous_coordinates

-----------------------------------------------------------------------------
(* Extreme points and the preview program *)

\* k is the first position of d with the least value in the column
FirstLeast(d, column, k) ==
    /\ k \in 1..Len(d)
    /\ \A n \in 1..Len(d) : d[k][column] <= d[n][column]
    /\ \A n \in 1..(k - 1) : d[n][column] # d[k][column]

\* k is the first position of d with the greatest value in the column
FirstGreatest(d, column, k) ==
    /\ k \in 1..Len(d)
    /\ \A n \in 1..Len(d) : d[k][column] >= d[n][column]
    /\ \A n \in 1..(k - 1) : d[n][column] # d[k][column]

(* C7: for every non-empty point sequence and every axis, the point that
   get_min_by_column (get_max_by_column) selects is a point of the sequence,
   carries the least (greatest) value of that axis, and is the first point of
   the sequence that does. *)
C7_FirstExtreme ==
    data # <<>> =>
        \A column \in 1..3 :
            /\ FirstLeast(data, column, get_min_by_column(data, column))
            /\ FirstGreatest(data, column, get_max_by_column(data, column))

\* the extreme values were looked up in a sequence where two different points
\* share the least x and two share the greatest y
C7_Witness ==
    /\ pc = "targets"
    /\ \E j, k \in 1..Len(data) :
          /\ j < k
          /\ data[j] # data[k]
          /\ data[j][1] = data[k][1]
          /\ FirstLeast(data, 1, j)
    /\ \E j, k \in 1..Len(data) :
          /\ j < k
          /\ data[j] # data[k]
          /\ data[j][2] = data[k][2]
          /\ FirstGreatest(data, 2, j)

\* x and y of the extreme point of the collected points that a target names
ExtremeXY(axis) ==
    LET k == CHOOSE n \in 1..Len(collected) :
                 CASE axis = "Ymin" -> FirstLeast(collected, 2, n)
                   [] axis = "Xmin" -> FirstLeast(collected, 1, n)
                   [] axis = "Ymax" -> FirstGreatest(collected, 2, n)
                   [] axis = "Xmax" -> FirstGreatest(collected, 1, n)
    IN  <<collected[k][1], collected[k][2]>>

\* message, pause and rapid move at the safety height for one target
TargetSteps(axis) ==
    LET at == ExtremeXY(axis) \o <<zsafety>>
    IN  <<[op |-> "MSG", axis |-> axis, args |-> at],
          [op |-> "M00", axis |-> "", args |-> <<>>],
          [op |-> "G00", axis |-> "", args |-> at]>>

\* the steps of the program after its header
ProgramSteps == SubSeq(out, Len(get_file_header) + 1, Len(out))

(* C8: for every non-empty point sequence and safety height h the program
   holds, in this order: the Zmin message, a rapid move to (0,0,h), then for
   Ymin, Xmin, Ymax, Xmax a message, a pause (M00) and a rapid move to the x,y
   of that extreme point with z = h, and the program end (M30). *)
C8_ProgramOrder ==
    pc = "done" =>
        LET zmin == CHOOSE v \in {collected[n][3] : n \in 1..Len(collected)} :
                        \A n \in 1..Len(collected) : v <= collected[n][3]
        IN  ProgramSteps =
                <<[op |-> "MSG", axis |-> "Zmin", args |-> <<zmin>>],
                  [op |-> "G00", axis |-> "", args |-> <<0, 0, zsafety>>]>>
                \o TargetSteps("Ymin") \o TargetSteps("Xmin")
                \o TargetSteps("Ymax") \o TargetSteps("Xmax")
                \o <<[op |-> "M30", axis |-> "", args |-> <<>>]>>

\* a finished program whose extremes lie at three different places off the
\* safety height
C8_Witness ==
    /\ pc = "done"
    /\ Cardinality({ExtremeXY(targets[n]) : n \in 1..4}) = 3
    /\ \A n \in 1..Len(collected) : collected[n][3] # zsafety

(* C9, as stated: for every input <= 0 the result is the default 25 and a
   diagnostic is raised; for every input > 0 no diagnostic is raised and the
   default is not substituted; the result is always > 0. *)
C9_CoercionByInputSign ==
    pc \notin {"read", "convert"} =>
        /\ zsafety_arg <= 0 => (zsafety = DefaultZ /\ diag)
        /\ zsafety_arg > 0 => (~diag /\ Abs(10 * zsafety - zsafety_arg) <= 5)
        /\ zsafety > 0

(* C9, amended: for every input that rounds to a whole number <= 0, that is
   every input <= 0.5, the result is the default 25 and a diagnostic is
   raised; for every other input no diagnostic is raised and the result is
   the input rounded to the nearest whole number; the result is always > 0. *)
C9_CoercionAfterRounding ==
    pc \notin {"read", "convert"} =>
        /\ zsafety_arg <= 5 => (zsafety = DefaultZ /\ diag)
        /\ zsafety_arg > 5 => (~diag /\ Abs(10 * zsafety - zsafety_arg) <= 5)
        /\ zsafety > 0

\* a positive input was replaced by the default
C9_Witness ==
    /\ pc = "header"
    /\ zsafety_arg > 0
    /\ diag
    /\ zsafety = DefaultZ

(* C10: get_extreme_value for Ymin, Xmin, Ymax or Xmax leaves every point of
   the collected sequence unchanged. *)
C10_DataUnchanged ==
    pc \in {"targets", "done"} => data = collected

====
